---- MODULE Spec2Model ----
(***************************************************************************)
(* Model of the Eufy camera streaming code.                                *)
(*                                                                         *)
(*  - LocalLivestreamManager (src/unnamed/part_000): the broker that owns  *)
(*    the single upstream station livestream of one camera.                *)
(*  - StreamingDelegate (src/src/accessories/streamingDelegate.ts): the    *)
(*    per-viewer session controller and the snapshot flow.                 *)
(*                                                                         *)
(* The two classes do not call each other: StreamingDelegate has its own   *)
(* getLocalLiveStream.  They are checked under separate specifications     *)
(* over one set of variables: BrokerSpec, BrokerFairSpec and AccessorSpec  *)
(* for the broker; Spec (viewer sessions), DelegateSpec (sessions and      *)
(* snapshots), SnapshotSpec, LifecycleSpec and RenegotiateSpec (one        *)
(* session), FaultSpec and StartFaultSpec (calls that throw), ParamsSpec   *)
(* (video parameters) and FairSpec for the delegate.                       *)
(***************************************************************************)
EXTENDS Integers, FiniteSets, Sequences, TLC

\* ---------------------------------------------------------------- bounds
NumCallers == 2      \* concurrent callers of getLocalLivestream
MaxTime == 6         \* the clock runs over 0..MaxTime (seconds)
MaxHandles == 2      \* accepted 'station livestream start' notifications
NumSessions == 2     \* HomeKit session ids
NumSnapshots == 1    \* snapshot requests that can be in flight together
MaxCacheTimers == 2  \* armed 'expire cached snapshot' timers
MaxStack == 3        \* call frames the stack has room for
MaxValue == 2        \* widths, heights, frame rates and bit rates run over 0..MaxValue

\* ------------------------------------------------------------- constants
DuplicateWindow == 5 \* seconds, part_000 line 129
WatchdogMultiplier == 5 \* streamingDelegate.ts lines 525, 585
MsPerSecond == 1000     \* streamingDelegate.ts lines 525, 585

Null == -1                                   \* null / undefined of a number-valued field
NoStream == [id |-> Null, createdAt |-> Null] \* stationStream === null
Callers == 1..NumCallers
HandleIds == 1..MaxHandles
Devices == {"this", "other"}
Sessions == 1..NumSessions
Snapshots == 1..NumSnapshots
\* what startStream creates for a session: the fields of ActiveSession (lines 68-77)
Resources == {"uVideoStream", "uAudioStream", "vsocket", "asocket",
              "mainProcess_video", "mainProcess_audio"}
\* request.audio.codec values; PCMU stands for every codec the audio branch rejects
AudioCodecs == {"AAC_ELD", "PCMU"}

\* request.video.srtp_key / srtp_salt and request.audio.srtp_key / srtp_salt of a
\* prepare request (byte sequences)
SrtpKeys == {<<1, 2>>, <<3, 4>>}
SrtpSalts == {<<5>>, <<6>>}
PrepareRequests == [video : [srtp_key : SrtpKeys, srtp_salt : SrtpSalts],
                    audio : [srtp_key : SrtpKeys, srtp_salt : SrtpSalts]]
\* what pickPort and generateSynchronisationSource return to one prepareStream
\* call; a picked port is reserved, so the second pick is another port
Picks == {p \in [videoReturnPort : 1..2, videoSSRC : 1..2,
                  audioReturnPort : 1..2, audioSSRC : 1..2] :
              p.videoReturnPort # p.audioReturnPort}
\* the prepare request and the picks of session s in the specifications that do
\* not vary them
DefaultPrepareRequest == [video |-> [srtp_key |-> <<1, 2>>, srtp_salt |-> <<5>>],
                          audio |-> [srtp_key |-> <<3, 4>>, srtp_salt |-> <<6>>]]
DefaultPicks(s) == [videoReturnPort |-> 2 * s - 1, videoSSRC |-> 2 * s - 1,
                    audioReturnPort |-> 2 * s, audioSSRC |-> 2 * s]
NoSessionInfo == [videoReturnPort |-> Null, videoSRTP |-> << >>, videoSSRC |-> Null,
                  audioReturnPort |-> Null, audioSRTP |-> << >>, audioSSRC |-> Null]
NoTrackResponse == [port |-> Null, ssrc |-> Null, srtp_key |-> << >>, srtp_salt |-> << >>]
NoResponse == [video |-> NoTrackResponse, audio |-> NoTrackResponse]
\* request.video.rtcp_interval and request.audio.rtcp_interval of a start
\* request, in seconds
RtcpIntervals == [video : 1..2, audio : 1..2]
DefaultRtcp == [video |-> 1, audio |-> 1]
\* request.video of a start request: what HomeKit asks for
VideoRequests == [width : 1..MaxValue, height : 1..MaxValue,
                  fps : 1..MaxValue, max_bit_rate : 1..MaxValue]
\* this.videoConfig: a maximum is Null when it is not configured; vcodec is ""
\* when it is not configured; videoFilter is the configured list, split at ','
VideoConfigs == [maxWidth : {Null} \cup 0..MaxValue, maxHeight : {Null} \cup 0..MaxValue,
                 maxFPS : {Null} \cup 0..MaxValue, maxBitrate : {Null} \cup 0..MaxValue,
                 forceMax : BOOLEAN, vcodec : {"", "libx264", "copy"},
                 videoFilter : {<< >>, <<"none">>, <<"hflip">>}]
\* the configuration the session specifications run with
DefaultVideoConfig == [maxWidth |-> Null, maxHeight |-> Null, maxFPS |-> Null,
                       maxBitrate |-> Null, forceMax |-> FALSE, vcodec |-> "",
                       videoFilter |-> << >>]
NoVideoParams == [computed |-> FALSE]

VARIABLES
    \* ---- LocalLivestreamManager
    now,                  \* Date.now(), in seconds
    stationStream,        \* NoStream or [id, createdAt]; vStream/aStream are the bridges <<id,"v">>, <<id,"a">>
    initSegment,          \* _initSegment: Null or the id of the handle whose first video chunk it is
    livestreamStartedAt,  \* Null or a time
    livestreamIsStarting, \* BOOLEAN
    listeners,            \* callers whose once('livestream start') listener is registered
    callerState,          \* per caller: "idle", "waiting", "resolved", "rejected"
    callerHandle,         \* per caller: the handle id its promise resolved with, or Null
    openBridges,          \* UniversalStream inputs that are open: <<handle id, "v"|"a">>
    dataPending,          \* handle ids whose videostream.once('data') listener has not fired yet
    nextHandle,           \* identity of the next StationStream object
    startsInEpoch,        \* start commands sent since the set of waiting callers was last empty
    commandOutstanding,   \* a start command was sent that the station has neither answered
                          \*   with 'station livestream start' nor been told to stop
    segmentCall,          \* the last getInitSegment() call: how its promise settled, with what,
                          \*   and the call frames it took
    \* ---- StreamingDelegate
    pendingSessions,      \* keys of the pendingSessions map
    ongoingSessions,      \* keys of the ongoingSessions map
    pc,                   \* per session id, where its startStream call stands:
                          \*   "idle" (not called), "awaitStream" (line 431), "delay" (line 534), "done",
                          \*   "failed" (the catch of lines 623-625 was reached)
    reqCodec,             \* per session id: request.audio.codec of its start request
    reqRtcp,              \* per session id: the rtcp_interval of both tracks of its start request
    sessionInfo,          \* per session id: the SessionInfo prepareStream stored under it (the
                          \*   value of the pendingSessions map while the id is a key of it)
    response,             \* per session id: the response prepareStream passed to its callback
    prepareRequest,       \* per session id: the crypto material of its prepare request
    timeoutDelay,         \* per session id: the delay (ms) of the timer in activeSession.timeout
    attached,             \* per session id: the fields set on its ActiveSession object
    res,                  \* per session id and resource: "none", "live", "released", or
                          \*   "exited" (a process that failed to spawn)
    timeout,              \* per session id: activeSession.timeout: "unset", "armed", "cleared", "fired"
    callback,             \* per session id: what startStream passed to its callback
    prepared,             \* session ids prepareStream was called with
    upstreamHeld,         \* session ids whose start command no stop command of theirs has followed
    stoppedDuring,        \* per session id, while its start is in flight: where the start
                          \*   stood when stopStream removed its pending session ("no",
                          \*   "awaitStream" or "delay"); "no" again once the start has ended
    snapPc,               \* per snapshot request: "idle", "awaitStream", "transcoding"
    snapshotPromise,      \* the cached promise: "undefined" or "promise"
    cacheTimers,          \* armed timers of line 290
    videoConfig,          \* this.videoConfig (set by the constructor, line 113)
    videoParams,          \* the video parameters startStream last derived (lines 442-489),
                          \*   with the request they were derived from
    fx                    \* what the last step did (operation, commands sent, bridges closed, ...)

brokerVars == <<now, stationStream, initSegment, livestreamStartedAt, livestreamIsStarting,
                listeners, callerState, callerHandle, openBridges, dataPending, nextHandle,
                startsInEpoch, commandOutstanding, segmentCall>>

delegateVars == <<pendingSessions, ongoingSessions, pc, reqCodec, attached, res, timeout,
                  callback, prepared, upstreamHeld, stoppedDuring,
                  snapPc, snapshotPromise, cacheTimers, videoConfig, videoParams,
                  reqRtcp, sessionInfo, response, prepareRequest, timeoutDelay>>

\* what a start or prepare request carries and what the watchdog timer was armed with
requestVars == <<reqRtcp, sessionInfo, response, prepareRequest, timeoutDelay>>

\* the part of the delegate's state the session handlers do not write
configVars == <<videoConfig, videoParams>>

\* what a session handler that reads no request data leaves alone
otherVars == <<brokerVars, configVars, requestVars>>

vars == <<brokerVars, delegateVars, fx>>

\* the record every broker step leaves in fx
BrokerFx(op, dev, startCmd, stopCmd, emit, closed) ==
    [op |-> op, dev |-> dev, sid |-> 0, startCmd |-> startCmd, stopCmd |-> stopCmd,
     emit |-> emit, closed |-> closed,
     resolved |-> IF emit THEN listeners ELSE {}, released |-> {},
     output |-> "none", settled |-> "none"]

NoFx == BrokerFx("init", "this", FALSE, FALSE, FALSE, {})

BrokerInit ==
    /\ now = 0
    /\ stationStream = NoStream
    /\ initSegment = Null
    /\ livestreamStartedAt = Null
    /\ livestreamIsStarting = FALSE
    /\ listeners = {}
    /\ callerState = [c \in Callers |-> "idle"]
    /\ callerHandle = [c \in Callers |-> Null]
    /\ openBridges = {}
    /\ dataPending = {}
    /\ nextHandle = 1
    /\ startsInEpoch = 0
    /\ commandOutstanding = FALSE
    /\ segmentCall = [status |-> "none", value |-> Null, frames |-> 0]

\* ------------------------------------------------------------ initialize
\* the bridges initialize() closes: both tracks of the current handle
BridgesOfCurrent ==
    IF stationStream # NoStream
    THEN {<<stationStream.id, "v">>, <<stationStream.id, "a">>}
    ELSE {}

\* initialize(): closes the bridges of the handle, clears the init segment, the
\* handle and the start time.  It touches neither livestreamIsStarting nor the
\* registered 'livestream start' listeners.
initialize ==
    /\ openBridges' = openBridges \ BridgesOfCurrent
    /\ initSegment' = Null
    /\ stationStream' = NoStream
    /\ livestreamStartedAt' = Null

\* ----------------------------------------------------- getLocalLivestream
\* (a variant without the guard of line 84: every caller sends a start command)
ShouldSendStart_Always == TRUE

\* line 84: the start command is sent only when no start is in flight
ShouldSendStart == ~livestreamIsStarting

startAndGetLocalLiveStream(c) ==
    /\ livestreamIsStarting' = (IF ShouldSendStart THEN TRUE ELSE livestreamIsStarting)
    /\ listeners' = listeners \cup {c}
    /\ callerState' = [callerState EXCEPT ![c] = "waiting"]
    /\ callerHandle' = [callerHandle EXCEPT ![c] = Null]
    /\ startsInEpoch' = (IF listeners = {} THEN 0 ELSE startsInEpoch)
                          + (IF ShouldSendStart THEN 1 ELSE 0)
    /\ commandOutstanding' = (ShouldSendStart \/ commandOutstanding)
    /\ fx' = BrokerFx("acquire", "this", ShouldSendStart, FALSE, FALSE, {})
    /\ UNCHANGED <<now, stationStream, initSegment, livestreamStartedAt, openBridges,
                   dataPending, nextHandle>>

\* (a variant that never finds a handle)
HasHandle_Never == FALSE

\* line 69: a handle exists
HasHandle == stationStream # NoStream

getLocalLivestream(c) ==
    /\ callerState[c] # "waiting"
    /\ IF HasHandle
       THEN /\ callerState' = [callerState EXCEPT ![c] = "resolved"]
            /\ callerHandle' = [callerHandle EXCEPT ![c] = stationStream.id]
            /\ fx' = BrokerFx("acquire", "this", FALSE, FALSE, FALSE, {})
            /\ UNCHANGED <<now, stationStream, initSegment, livestreamStartedAt,
                           livestreamIsStarting, listeners, openBridges, dataPending,
                           nextHandle, startsInEpoch, commandOutstanding>>
       ELSE startAndGetLocalLiveStream(c)

\* ---------------------------------------------------- stopLocalLiveStream
stopLocalLiveStream ==
    /\ initialize
    /\ commandOutstanding' = FALSE
    /\ fx' = BrokerFx("release", "this", FALSE, TRUE, FALSE, BridgesOfCurrent)
    /\ UNCHANGED <<now, livestreamIsStarting, listeners, callerState, callerHandle,
                   dataPending, nextHandle, startsInEpoch>>

\* ------------------------------------------------ onStationLivestreamStop
onStationLivestreamStop(dev) ==
    /\ IF dev = "this"
       THEN /\ initialize
            /\ fx' = BrokerFx("onStop", dev, FALSE, FALSE, FALSE, BridgesOfCurrent)
       ELSE /\ fx' = BrokerFx("onStop", dev, FALSE, FALSE, FALSE, {})
            /\ UNCHANGED <<openBridges, initSegment, stationStream, livestreamStartedAt>>
    /\ UNCHANGED <<now, livestreamIsStarting, listeners, callerState, callerHandle,
                   dataPending, nextHandle, startsInEpoch, commandOutstanding>>

\* ----------------------------------------------- onStationLivestreamStart
\* (a variant whose window is one second shorter)
IsDuplicateStart_Short ==
    /\ stationStream # NoStream
    /\ now - stationStream.createdAt < DuplicateWindow - 1

\* lines 127-132: a handle exists and is younger than the window
IsDuplicateStart ==
    /\ stationStream # NoStream
    /\ now - stationStream.createdAt < DuplicateWindow

\* the listener of startAndGetLocalLiveStream (lines 91-99), run for caller c
\* by emit('livestream start') with the handle h then stored
ListenerState(h) == IF h # NoStream THEN "resolved" ELSE "rejected"

onStationLivestreamStart(dev) ==
    IF dev # "this"
    THEN /\ fx' = BrokerFx("onStart", dev, FALSE, FALSE, FALSE, {})
         /\ UNCHANGED otherVars
    ELSE IF IsDuplicateStart
    THEN /\ fx' = BrokerFx("onStart", dev, FALSE, FALSE, FALSE, {})
         /\ UNCHANGED otherVars
    ELSE /\ nextHandle <= MaxHandles
         /\ stationStream' = [id |-> nextHandle, createdAt |-> now]
         /\ livestreamStartedAt' = now
         /\ initSegment' = Null
         /\ openBridges' = (openBridges \ BridgesOfCurrent)
                              \cup {<<nextHandle, "v">>, <<nextHandle, "a">>}
         /\ dataPending' = dataPending \cup {nextHandle}
         /\ nextHandle' = nextHandle + 1
         \* emit('livestream start'): every once-listener runs and is removed
         /\ callerState' = [c \in Callers |->
                              IF c \in listeners THEN ListenerState(stationStream')
                              ELSE callerState[c]]
         /\ callerHandle' = [c \in Callers |->
                              IF c \in listeners /\ stationStream' # NoStream
                              THEN stationStream'.id ELSE callerHandle[c]]
         /\ livestreamIsStarting' = (IF listeners # {} /\ stationStream' # NoStream
                                     THEN FALSE ELSE livestreamIsStarting)
         /\ listeners' = {}
         /\ startsInEpoch' = 0
         /\ commandOutstanding' = FALSE
         /\ fx' = BrokerFx("onStart", dev, FALSE, FALSE, TRUE, BridgesOfCurrent)
         /\ UNCHANGED now

\* videostream.once('data', ...) of the handle h (lines 140-142)
onVideoData(h) ==
    /\ h \in dataPending
    /\ dataPending' = dataPending \ {h}
    /\ initSegment' = h
    /\ fx' = BrokerFx("data", "this", FALSE, FALSE, FALSE, {})
    /\ UNCHANGED <<now, stationStream, livestreamStartedAt, livestreamIsStarting, listeners,
                   callerState, callerHandle, openBridges, nextHandle, startsInEpoch,
                   commandOutstanding>>

\* the clock
Tick ==
    /\ now < MaxTime
    /\ now' = now + 1
    /\ fx' = BrokerFx("tick", "this", FALSE, FALSE, FALSE, {})
    /\ UNCHANGED <<stationStream, initSegment, livestreamStartedAt, livestreamIsStarting,
                   listeners, callerState, callerHandle, openBridges, dataPending,
                   nextHandle, startsInEpoch, commandOutstanding>>

\* ------------------------------------------------------- getInitSegment
\* lines 154-162 in the frame number `frame` of the call stack: the segment if
\* it is there, else the same call again, at once (nothing is awaited, no event
\* handler can run in between); a call that finds no room on the stack throws
\* RangeError, which rejects the promise of every frame below it
RECURSIVE GetInitSegment(_)
GetInitSegment(frame) ==
    IF frame > MaxStack
    THEN [status |-> "RangeError", value |-> Null, frames |-> frame - 1]
    ELSE IF initSegment # Null
    THEN [status |-> "returned", value |-> initSegment, frames |-> frame]
    ELSE GetInitSegment(frame + 1)

getInitSegment ==
    /\ segmentCall' = GetInitSegment(1)
    /\ fx' = BrokerFx("getInitSegment", "this", FALSE, FALSE, FALSE, {})
    /\ UNCHANGED <<now, stationStream, initSegment, livestreamStartedAt, livestreamIsStarting,
                   listeners, callerState, callerHandle, openBridges, dataPending,
                   nextHandle, startsInEpoch, commandOutstanding>>

BrokerNext ==
    \/ \E c \in Callers : getLocalLivestream(c) /\ UNCHANGED <<delegateVars, segmentCall>>
    \/ stopLocalLiveStream /\ UNCHANGED <<delegateVars, segmentCall>>
    \/ \E d \in Devices : onStationLivestreamStop(d) /\ UNCHANGED <<delegateVars, segmentCall>>
    \/ \E d \in Devices : onStationLivestreamStart(d) /\ UNCHANGED <<delegateVars, segmentCall>>
    \/ \E h \in HandleIds : onVideoData(h) /\ UNCHANGED <<delegateVars, segmentCall>>
    \/ Tick /\ UNCHANGED <<delegateVars, segmentCall>>

\* the station answers the start command that is outstanding
stationAnswers ==
    /\ commandOutstanding
    /\ onStationLivestreamStart("this")
    /\ UNCHANGED <<delegateVars, segmentCall>>

AccessorNext ==
    \/ BrokerNext
    \/ getInitSegment /\ UNCHANGED delegateVars

\* ======================================================================
\* StreamingDelegate
\* ======================================================================

\* the record every delegate step leaves in fx; released: the <<session, resource>>
\* pairs stop()/close() was called on; output: what the transcoder of a snapshot
\* had written when it closed; settled: how the step settled the promise of a
\* snapshot fetch ("resolved", "rejected") or called back a request ("callback()")
DelegateFx(op, sid, startCmd, stopCmd, released) ==
    [op |-> op, dev |-> "this", sid |-> sid, startCmd |-> startCmd, stopCmd |-> stopCmd,
     emit |-> FALSE, closed |-> {}, resolved |-> {}, released |-> released,
     output |-> "none", settled |-> "none"]

NoResources == [r \in Resources |-> "none"]

DelegateInit ==
    /\ pendingSessions = {}
    /\ ongoingSessions = {}
    /\ pc = [s \in Sessions |-> "idle"]
    /\ reqCodec = [s \in Sessions |-> "AAC_ELD"]
    /\ attached = [s \in Sessions |-> {}]
    /\ res = [s \in Sessions |-> NoResources]
    /\ timeout = [s \in Sessions |-> "unset"]
    /\ callback = [s \in Sessions |-> "none"]
    /\ prepared = {}
    /\ upstreamHeld = {}
    /\ stoppedDuring = [s \in Sessions |-> "no"]
    /\ snapPc = [k \in Snapshots |-> "idle"]
    /\ snapshotPromise = "undefined"
    /\ cacheTimers = 0
    /\ videoParams = NoVideoParams
    /\ reqRtcp = [s \in Sessions |-> DefaultRtcp]
    /\ sessionInfo = [s \in Sessions |-> NoSessionInfo]
    /\ response = [s \in Sessions |-> NoResponse]
    /\ prepareRequest = [s \in Sessions |-> DefaultPrepareRequest]
    /\ timeoutDelay = [s \in Sessions |-> Null]

\* ---------------------------------------------------------- prepareStream
\* (a variant that puts the salt first)
Concat_SaltFirst(key, salt) == salt \o key

\* Buffer.concat([key, salt]) (lines 397, 403)
Concat(key, salt) == key \o salt

\* lines 390-405
SessionInfoOf(request, picks) ==
    [videoReturnPort |-> picks.videoReturnPort,
     videoSRTP |-> Concat(request.video.srtp_key, request.video.srtp_salt),
     videoSSRC |-> picks.videoSSRC,
     audioReturnPort |-> picks.audioReturnPort,
     audioSRTP |-> Concat(request.audio.srtp_key, request.audio.srtp_salt),
     audioSSRC |-> picks.audioSSRC]

\* lines 407-422
ResponseOf(request, picks) ==
    [video |-> [port |-> picks.videoReturnPort, ssrc |-> picks.videoSSRC,
                srtp_key |-> request.video.srtp_key, srtp_salt |-> request.video.srtp_salt],
     audio |-> [port |-> picks.audioReturnPort, ssrc |-> picks.audioSSRC,
                srtp_key |-> request.audio.srtp_key, srtp_salt |-> request.audio.srtp_salt]]

\* HomeKit draws a fresh session id for every negotiation, and sends the start
\* and stop requests of an id after the response to its prepare request: the
\* two awaited pickPort calls (lines 385, 387) read and write nothing of the
\* delegate, so the handler is one step.
prepareStream(s, request, picks) ==
    /\ s \notin prepared
    /\ pc[s] = "idle"
    /\ prepared' = prepared \cup {s}
    /\ pendingSessions' = pendingSessions \cup {s}
    /\ sessionInfo' = [sessionInfo EXCEPT ![s] = SessionInfoOf(request, picks)]
    /\ response' = [response EXCEPT ![s] = ResponseOf(request, picks)]
    /\ prepareRequest' = [prepareRequest EXCEPT ![s] = request]
    /\ fx' = DelegateFx("prepare", s, FALSE, FALSE, {})
    /\ UNCHANGED <<reqRtcp, timeoutDelay>>
    /\ UNCHANGED <<ongoingSessions, pc, reqCodec, attached, res, timeout, callback,
                   upstreamHeld, stoppedDuring, snapPc, snapshotPromise,
                   cacheTimers>>

\* prepareStream for an id that was negotiated before and is not active now (the
\* handler itself, lines 377-426, tests nothing): the entry of the id in the
\* pending table is set, again or anew, while a start of the id may be in flight
prepareStreamAgain(s, request, picks) ==
    /\ s \in prepared
    /\ s \notin ongoingSessions
    /\ pendingSessions' = pendingSessions \cup {s}
    /\ sessionInfo' = [sessionInfo EXCEPT ![s] = SessionInfoOf(request, picks)]
    /\ response' = [response EXCEPT ![s] = ResponseOf(request, picks)]
    /\ prepareRequest' = [prepareRequest EXCEPT ![s] = request]
    /\ fx' = DelegateFx("prepare", s, FALSE, FALSE, {})
    /\ UNCHANGED <<reqRtcp, timeoutDelay>>
    /\ UNCHANGED <<ongoingSessions, pc, reqCodec, attached, res, timeout, callback,
                   prepared, upstreamHeld, stoppedDuring, snapPc, snapshotPromise,
                   cacheTimers>>

\* ------------------------------------------------------------ startStream
\* lines 428-433: getLocalLiveStream sends the start command (line 215) and the
\* call is suspended until the station's 'livestream start' event
startStream(s, codec, rtcp) ==
    /\ pc[s] = "idle"
    /\ pc' = [pc EXCEPT ![s] = "awaitStream"]
    /\ reqCodec' = [reqCodec EXCEPT ![s] = codec]
    /\ reqRtcp' = [reqRtcp EXCEPT ![s] = rtcp]
    /\ UNCHANGED <<sessionInfo, response, prepareRequest, timeoutDelay>>
    /\ upstreamHeld' = upstreamHeld \cup {s}
    /\ fx' = DelegateFx("start", s, TRUE, FALSE, {})
    /\ UNCHANGED <<pendingSessions, ongoingSessions, attached, res, timeout, callback,
                   prepared, stoppedDuring, snapPc, snapshotPromise, cacheTimers>>

\* (a variant that takes the session for found whatever the table holds)
FoundPending_Always(s) == TRUE

\* line 440-441: the pending session is looked up after the bridge was opened
FoundPending(s) == s \in pendingSessions

\* (a variant that sets up the audio track together with the video track)
ResAfterResume_WithAudio(s) ==
    IF s \in pendingSessions
    THEN [r \in Resources |-> "live"]
    ELSE [res[s] EXCEPT !["uVideoStream"] = "live"]

\* lines 438-534 for one session resumed with the stream data: the video bridge
\* is opened first; with a pending session the socket is bound, the bridge
\* attached and the video process spawned
ResAfterResume(s) ==
    IF FoundPending(s)
    THEN [res[s] EXCEPT !["uVideoStream"] = "live", !["vsocket"] = "live",
                        !["mainProcess_video"] = "live"]
    ELSE [res[s] EXCEPT !["uVideoStream"] = "live"]

AttachedAfterResume(s) ==
    IF FoundPending(s) THEN {"vsocket", "uVideoStream", "mainProcess_video"} ELSE {}

\* the station's 'livestream start' event: the listeners of lines 217-224 resolve
\* every suspended getLocalLiveStream of this device, and the resumed calls run
\* (as microtasks of the same turn) up to their next suspension
stationLivestreamStart(dev) ==
    /\ IF dev = "this"
       THEN /\ res' = [s \in Sessions |->
                         IF pc[s] = "awaitStream" THEN ResAfterResume(s) ELSE res[s]]
            /\ attached' = [s \in Sessions |->
                         IF pc[s] = "awaitStream" THEN AttachedAfterResume(s) ELSE attached[s]]
            /\ callback' = [s \in Sessions |->
                         IF pc[s] = "awaitStream" /\ ~FoundPending(s)
                         THEN "Error finding session information" ELSE callback[s]]
            /\ pc' = [s \in Sessions |->
                         IF pc[s] = "awaitStream"
                         THEN (IF FoundPending(s) THEN "delay" ELSE "done")
                         ELSE pc[s]]
            /\ snapPc' = [k \in Snapshots |->
                         IF snapPc[k] = "awaitStream" THEN "transcoding" ELSE snapPc[k]]
       ELSE UNCHANGED <<res, attached, callback, pc, snapPc>>
    /\ stoppedDuring' = [s \in Sessions |->
                         IF dev = "this" /\ pc[s] = "awaitStream" /\ ~FoundPending(s)
                         THEN "no" ELSE stoppedDuring[s]]
    /\ fx' = [DelegateFx("livestreamStart", 0, FALSE, FALSE, {}) EXCEPT !.dev = dev]
    /\ UNCHANGED <<pendingSessions, ongoingSessions, reqCodec, timeout, prepared,
                   upstreamHeld, snapshotPromise, cacheTimers>>

\* the station's 'livestream stop' event for this camera: the delegate registers
\* no listener for it (lines 597-603 are commented out)
stationLivestreamStop ==
    /\ fx' = DelegateFx("livestreamStop", 0, FALSE, FALSE, {})
    /\ UNCHANGED delegateVars

\* ------------------------------------------------------------- stopStream
\* (a variant that clears the whole pending table)
PendingAfterStop_Clear(s, pend) == {}

\* (a variant that leaves the pending session where it is)
PendingAfterStop_Keep(s, pend) == pend

\* lines 649-652
PendingAfterStop(s, pend) == pend \ {s}

\* (a variant that leaves the stopped session in the table)
OngoingAfterStop_Keep(s, ong) == ong

\* line 683
OngoingAfterStop(s, ong) == ong \ {s}

\* stopStream(s) run on the tables pend/ong with the session object of s having
\* the fields att, its resources being rs and its timer tmo
stopStreamResult(s, pend, ong, att, rs, tmo) ==
    IF s \in ong
    THEN [pending  |-> PendingAfterStop(s, pend),
          ongoing  |-> OngoingAfterStop(s, ong),
          res      |-> [r \in Resources |-> IF r \in att THEN "released" ELSE rs[r]],
          timeout  |-> IF tmo = "armed" THEN "cleared" ELSE tmo,
          released |-> {<<s, r>> : r \in att},
          stopCmd  |-> TRUE]
    ELSE [pending  |-> PendingAfterStop(s, pend),
          ongoing  |-> ong,
          res      |-> rs,
          timeout  |-> tmo,
          released |-> {},
          stopCmd  |-> FALSE]

\* where the start of s stands if this stop removes its pending session
StoppedDuringAfter(s) ==
    IF s \in pendingSessions /\ pc[s] \in {"awaitStream", "delay"}
    THEN pc[s] ELSE stoppedDuring[s]

\* stopStream(s) called from a request or an event handler; tmo is the state of
\* the session's timer when it is called
stopStream(s, op, tmo) ==
    LET r == stopStreamResult(s, pendingSessions, ongoingSessions, attached[s], res[s], tmo)
    IN  /\ pendingSessions' = r.pending
        /\ ongoingSessions' = r.ongoing
        /\ res' = [res EXCEPT ![s] = r.res]
        /\ timeout' = [timeout EXCEPT ![s] = r.timeout]
        /\ upstreamHeld' = (IF r.stopCmd THEN upstreamHeld \ {s} ELSE upstreamHeld)
        /\ stoppedDuring' = [stoppedDuring EXCEPT ![s] = StoppedDuringAfter(s)]
        /\ fx' = DelegateFx(op, s, FALSE, r.stopCmd, r.released)
        /\ UNCHANGED <<pc, reqCodec, attached, callback, prepared,
                       snapPc, snapshotPromise, cacheTimers>>

\* handleStreamRequest, StreamRequestTypes.STOP (lines 638-642)
handleStop(s) == stopStream(s, "stop", timeout[s])

\* the keys `for (const session in map)` runs over when map is a Map (line 129):
\* for...in enumerates the enumerable string-keyed properties of the object, and
\* the entries of a Map are not properties of it
ForInKeys(map) == {}

\* the handler of APIEvent.SHUTDOWN (lines 128-132): stopStream for every key
\* the loop runs over
shutdown ==
    LET keys == ForInKeys(ongoingSessions)
        r(s) == stopStreamResult(s, pendingSessions, ongoingSessions, attached[s],
                                 res[s], timeout[s])
    IN  /\ pendingSessions' = {s \in pendingSessions : s \notin keys \/ s \in r(s).pending}
        /\ ongoingSessions' = {s \in ongoingSessions : s \notin keys \/ s \in r(s).ongoing}
        /\ res' = [s \in Sessions |-> IF s \in keys THEN r(s).res ELSE res[s]]
        /\ timeout' = [s \in Sessions |-> IF s \in keys THEN r(s).timeout ELSE timeout[s]]
        /\ upstreamHeld' = {s \in upstreamHeld : s \notin keys \/ ~r(s).stopCmd}
        /\ fx' = DelegateFx("shutdown", 0, FALSE, \E s \in keys : r(s).stopCmd,
                            UNION {r(s).released : s \in keys})
        /\ UNCHANGED <<pc, reqCodec, attached, callback, prepared, stoppedDuring,
                       snapPc, snapshotPromise, cacheTimers>>

\* (a variant that treats the request as a stop request)
handleReconfigure_AsStop(s) ==
    /\ stopStream(s, "reconfigure", timeout[s])

\* handleStreamRequest, StreamRequestTypes.RECONFIGURE (lines 633-637): the
\* request is logged and the callback is called without an argument
handleReconfigure(s) ==
    /\ fx' = [DelegateFx("reconfigure", s, FALSE, FALSE, {}) EXCEPT !.settled = "callback()"]
    /\ UNCHANGED <<pendingSessions, ongoingSessions, pc, reqCodec, attached, res, timeout,
                   callback, prepared, upstreamHeld, stoppedDuring,
                   snapPc, snapshotPromise, cacheTimers>>

\* --------------------------------------------- startStream, after the delay
\* (a variant that accepts every codec)
AudioSupported_Any(codec) == TRUE

\* line 542: the codecs the audio branch accepts
AudioSupported(codec) == codec \in {"OPUS", "AAC_ELD"}

\* lines 536-595: the audio bridge is opened in any case; socket, process and the
\* uAudioStream field are set only for a supported codec
ResAfterAudio(s) ==
    IF AudioSupported(reqCodec[s])
    THEN [res[s] EXCEPT !["uAudioStream"] = "live", !["asocket"] = "live",
                        !["mainProcess_audio"] = "live"]
    ELSE [res[s] EXCEPT !["uAudioStream"] = "live"]

AttachedAfterAudio(s) ==
    IF AudioSupported(reqCodec[s])
    THEN attached[s] \cup {"asocket", "uAudioStream", "mainProcess_audio"}
    ELSE attached[s]

\* (a variant that leaves the pending session in its table)
PendingAfterPromote_Keep(s, pend) == pend

\* line 610
PendingAfterPromote(s, pend) == pend \ {s}

\* lines 534-617: the 6 s timer of line 534 fires, the audio track is set up and
\* the session is registered, or registered and stopped at once when its pending
\* session is gone
startStreamAfterDelay(s) ==
    /\ pc[s] = "delay"
    /\ pc' = [pc EXCEPT ![s] = "done"]
    /\ attached' = [attached EXCEPT ![s] = AttachedAfterAudio(s)]
    /\ IF s \in pendingSessions
       THEN /\ ongoingSessions' = ongoingSessions \cup {s}
            /\ pendingSessions' = PendingAfterPromote(s, pendingSessions)
            /\ res' = [res EXCEPT ![s] = ResAfterAudio(s)]
            /\ fx' = DelegateFx("afterDelay", s, FALSE, FALSE, {})
            /\ UNCHANGED <<timeout, upstreamHeld>>
       ELSE LET r == stopStreamResult(s, pendingSessions, ongoingSessions \cup {s},
                                      AttachedAfterAudio(s), ResAfterAudio(s), timeout[s])
            IN  /\ ongoingSessions' = r.ongoing
                /\ pendingSessions' = r.pending
                /\ res' = [res EXCEPT ![s] = r.res]
                /\ timeout' = [timeout EXCEPT ![s] = r.timeout]
                /\ upstreamHeld' = (IF r.stopCmd THEN upstreamHeld \ {s} ELSE upstreamHeld)
                /\ fx' = DelegateFx("afterDelay", s, FALSE, r.stopCmd, r.released)
    /\ stoppedDuring' = [stoppedDuring EXCEPT ![s] = "no"]
    /\ UNCHANGED <<reqCodec, callback, prepared, snapPc, snapshotPromise, cacheTimers>>

\* ------------------------------------------------------------- watchdog
\* the delay the 'message' handler of a socket passes to setTimeout
\* (lines 525, 585), in ms
WatchdogDelay(rtcp, sock) ==
    (IF sock = "vsocket" THEN rtcp.video ELSE rtcp.audio) * WatchdogMultiplier * MsPerSecond

\* 'message' on the video or audio return socket (lines 516-525, 576-585): the
\* timer held in activeSession.timeout is cleared and a new one is armed
socketMessage(s, sock) ==
    /\ res[s][sock] = "live"
    /\ timeout' = [timeout EXCEPT ![s] = "armed"]
    /\ timeoutDelay' = [timeoutDelay EXCEPT ![s] = WatchdogDelay(reqRtcp[s], sock)]
    /\ UNCHANGED <<reqRtcp, sessionInfo, response, prepareRequest>>
    /\ fx' = DelegateFx("message", s, FALSE, FALSE, {})
    /\ UNCHANGED <<pendingSessions, ongoingSessions, pc, reqCodec, attached, res, callback,
                   prepared, upstreamHeld, stoppedDuring, snapPc,
                   snapshotPromise, cacheTimers>>

\* the timer fires (lines 520-524, 580-584): stopStream(sessionID)
timeoutFires(s) ==
    /\ timeout[s] = "armed"
    /\ stopStream(s, "watchdog", "fired")

\* the 'error' event of a return socket (lines 512-515, 572-575): stopStream
socketError(s, sock) ==
    /\ res[s][sock] = "live"
    /\ stopStream(s, "socketError", timeout[s])

\* the session id the one-session specifications follow
OneSession == {CHOOSE s \in Sessions : TRUE}

\* ------------------------------------------------------------- snapshots
\* handleSnapshotRequest (lines 342-353): the cached promise if there is one,
\* else fetchSnapshot, whose getLocalLiveStream sends the start command
handleSnapshotRequest(k) ==
    /\ snapPc[k] = "idle"
    /\ cacheTimers < MaxCacheTimers
    /\ IF snapshotPromise # "undefined"
       THEN /\ fx' = DelegateFx("snapshot", k, FALSE, FALSE, {})
            /\ UNCHANGED snapPc
       ELSE /\ snapPc' = [snapPc EXCEPT ![k] = "awaitStream"]
            /\ fx' = DelegateFx("snapshot", k, TRUE, FALSE, {})
    /\ UNCHANGED <<pendingSessions, ongoingSessions, pc, reqCodec, attached, res, timeout,
                   callback, prepared, upstreamHeld, stoppedDuring,
                   snapshotPromise, cacheTimers>>

\* what the transcoder of a snapshot has written to stdout when it closes
\* (snapshotBuffer, lines 267-270): nothing, or an image
SnapshotOutputs == {"empty", "image"}

\* (a variant that resolves whatever the output)
SnapshotSettles_Resolve(output) == "resolved"

\* lines 282-286: resolve(snapshotBuffer) if it is not empty, else reject
SnapshotSettles(output) == IF output # "empty" THEN "resolved" ELSE "rejected"

\* ffmpeg 'close' of a snapshot fetch (lines 281-294): the promise is settled,
\* the stop command is sent and the expiry timer is armed.  (The 'error' event
\* of a process that could not be spawned, line 271, rejects the promise before
\* the 'close' event, which then finds the buffer empty.)
snapshotClose(k, output) ==
    /\ snapPc[k] = "transcoding"
    /\ snapPc' = [snapPc EXCEPT ![k] = "idle"]
    /\ cacheTimers' = cacheTimers + 1
    /\ fx' = [DelegateFx("snapshotClose", k, FALSE, TRUE, {})
                 EXCEPT !.output = output, !.settled = SnapshotSettles(output)]
    /\ UNCHANGED <<pendingSessions, ongoingSessions, pc, reqCodec, attached, res, timeout,
                   callback, prepared, upstreamHeld, stoppedDuring,
                   snapshotPromise>>

\* the timer of lines 290-293 fires
snapshotExpire ==
    /\ cacheTimers > 0
    /\ cacheTimers' = cacheTimers - 1
    /\ snapshotPromise' = "undefined"
    /\ fx' = DelegateFx("snapshotExpire", 0, FALSE, FALSE, {})
    /\ UNCHANGED <<pendingSessions, ongoingSessions, pc, reqCodec, attached, res, timeout,
                   callback, prepared, upstreamHeld, stoppedDuring, snapPc>>

SessionNext ==
    \/ \E s \in Sessions :
           prepareStream(s, DefaultPrepareRequest, DefaultPicks(s))
           /\ UNCHANGED <<brokerVars, configVars>>
    \/ \E s \in Sessions, codec \in AudioCodecs :
           startStream(s, codec, DefaultRtcp) /\ UNCHANGED <<brokerVars, configVars>>
    \/ \E d \in Devices : stationLivestreamStart(d) /\ UNCHANGED otherVars
    \/ stationLivestreamStop /\ UNCHANGED otherVars
    \/ \E s \in Sessions : startStreamAfterDelay(s) /\ UNCHANGED otherVars
    \/ \E s \in Sessions : handleStop(s) /\ UNCHANGED otherVars
    \/ \E s \in Sessions, sock \in {"vsocket", "asocket"} :
           socketMessage(s, sock) /\ UNCHANGED <<brokerVars, configVars>>
    \/ \E s \in Sessions : timeoutFires(s) /\ UNCHANGED otherVars

DelegateNext ==
    \/ SessionNext
    \/ \E k \in Snapshots : handleSnapshotRequest(k) /\ UNCHANGED otherVars
    \/ \E k \in Snapshots, output \in SnapshotOutputs :
           snapshotClose(k, output) /\ UNCHANGED otherVars
    \/ snapshotExpire /\ UNCHANGED otherVars

\* the snapshot flow next to one viewer session
SnapshotNext ==
    \/ \E k \in Snapshots : handleSnapshotRequest(k) /\ UNCHANGED otherVars
    \/ \E k \in Snapshots, output \in SnapshotOutputs :
           snapshotClose(k, output) /\ UNCHANGED otherVars
    \/ snapshotExpire /\ UNCHANGED otherVars
    \/ \E d \in Devices : stationLivestreamStart(d) /\ UNCHANGED otherVars
    \/ \E s \in OneSession :
           prepareStream(s, DefaultPrepareRequest, DefaultPicks(s))
           /\ UNCHANGED <<brokerVars, configVars>>
    \/ \E s \in OneSession, codec \in AudioCodecs :
           startStream(s, codec, DefaultRtcp) /\ UNCHANGED <<brokerVars, configVars>>
    \/ \E s \in OneSession : startStreamAfterDelay(s) /\ UNCHANGED otherVars
    \/ \E s \in OneSession : handleStop(s) /\ UNCHANGED otherVars

\* ======================================================================
\* StreamingDelegate: calls that throw
\* ======================================================================
\* the calls of the start path that can throw, before the 6 s delay ...
StartFaults == {"StreamInput_video", "createSocket_video", "FfmpegProcess_video"}
\* ... and after it
AudioFaults == {"StreamInput_audio", "createSocket_audio", "FfmpegProcess_audio"}
\* the calls of stopStream that can throw (lines 659-681)
StopFaults == Resources \cup {"stopStationLivestream"}

\* line 215 throws inside the promise executor: getLocalLiveStream rejects, the
\* catch of lines 623-625 logs and startStream returns
startStreamThrows(s) ==
    /\ pc[s] = "idle"
    /\ pc' = [pc EXCEPT ![s] = "failed"]
    /\ fx' = DelegateFx("startThrows", s, FALSE, FALSE, {})
    /\ UNCHANGED <<pendingSessions, ongoingSessions, reqCodec, attached, res, timeout,
                   callback, prepared, upstreamHeld, stoppedDuring,
                   snapPc, snapshotPromise, cacheTimers>>

\* lines 438-531 for a session whose call `at` throws: what was created before
\* it stays, in no table and in no session object that is registered
ResAfterResumeThrow(s, at) ==
    IF at = "StreamInput_video" \/ ~FoundPending(s)
    THEN res[s]
    ELSE IF at = "createSocket_video"
    THEN [res[s] EXCEPT !["uVideoStream"] = "live"]
    ELSE [res[s] EXCEPT !["uVideoStream"] = "live", !["vsocket"] = "live"]

AttachedAfterResumeThrow(s, at) ==
    IF at = "FfmpegProcess_video" /\ FoundPending(s)
    THEN {"vsocket", "uVideoStream"} ELSE {}

\* the station's 'livestream start' event when the resumed call of session f
\* throws at `at`; the other suspended calls resume as in stationLivestreamStart.
\* The catch of lines 623-625 logs and does nothing else.
stationLivestreamStartThrows(f, at) ==
    /\ pc[f] = "awaitStream"
    /\ at = "StreamInput_video" \/ FoundPending(f)
    /\ res' = [s \in Sessions |->
                 IF s = f THEN ResAfterResumeThrow(s, at)
                 ELSE IF pc[s] = "awaitStream" THEN ResAfterResume(s) ELSE res[s]]
    /\ attached' = [s \in Sessions |->
                 IF s = f THEN AttachedAfterResumeThrow(s, at)
                 ELSE IF pc[s] = "awaitStream" THEN AttachedAfterResume(s) ELSE attached[s]]
    /\ callback' = [s \in Sessions |->
                 IF s # f /\ pc[s] = "awaitStream" /\ ~FoundPending(s)
                 THEN "Error finding session information" ELSE callback[s]]
    /\ pc' = [s \in Sessions |->
                 IF s = f THEN "failed"
                 ELSE IF pc[s] = "awaitStream"
                 THEN (IF FoundPending(s) THEN "delay" ELSE "done")
                 ELSE pc[s]]
    /\ snapPc' = [k \in Snapshots |->
                 IF snapPc[k] = "awaitStream" THEN "transcoding" ELSE snapPc[k]]
    /\ stoppedDuring' = [s \in Sessions |->
                 IF s = f \/ (pc[s] = "awaitStream" /\ ~FoundPending(s))
                 THEN "no" ELSE stoppedDuring[s]]
    /\ fx' = DelegateFx("livestreamStartThrows", f, FALSE, FALSE, {})
    /\ UNCHANGED <<pendingSessions, ongoingSessions, reqCodec, timeout, prepared,
                   upstreamHeld, snapshotPromise, cacheTimers>>

\* lines 536-591 when the call `at` throws: the pending re-check of lines 605-617
\* is not reached
ResAfterAudioThrow(s, at) ==
    IF at = "StreamInput_audio"
    THEN res[s]
    ELSE IF at = "createSocket_audio"
    THEN [res[s] EXCEPT !["uAudioStream"] = "live"]
    ELSE [res[s] EXCEPT !["uAudioStream"] = "live", !["asocket"] = "live"]

AttachedAfterAudioThrow(s, at) ==
    IF at = "FfmpegProcess_audio"
    THEN attached[s] \cup {"asocket", "uAudioStream"} ELSE attached[s]

startStreamAfterDelayThrows(s, at) ==
    /\ pc[s] = "delay"
    /\ at = "StreamInput_audio" \/ AudioSupported(reqCodec[s])
    /\ pc' = [pc EXCEPT ![s] = "failed"]
    /\ res' = [res EXCEPT ![s] = ResAfterAudioThrow(s, at)]
    /\ attached' = [attached EXCEPT ![s] = AttachedAfterAudioThrow(s, at)]
    /\ stoppedDuring' = [stoppedDuring EXCEPT ![s] = "no"]
    /\ fx' = DelegateFx("afterDelayThrows", s, FALSE, FALSE, {})
    /\ UNCHANGED <<pendingSessions, ongoingSessions, reqCodec, timeout, callback, prepared,
                   upstreamHeld, snapPc, snapshotPromise, cacheTimers>>

\* the call of the same try block that a throw of f skips (lines 659-676)
SkippedBy(f) ==
    IF f = "mainProcess_video" THEN {"mainProcess_audio"}
    ELSE IF f = "vsocket" THEN {"asocket"}
    ELSE IF f = "uVideoStream" THEN {"uAudioStream"}
    ELSE {}

\* the fields of the session object stop()/close() is called on when the call
\* on f throws
CalledOnThrow(att, f) == att \ SkippedBy(f)

\* stopStream(s) of a registered session when its call f throws (lines 654-685):
\* the four try blocks run one after the other, a throw leaves its own block
stopStreamThrows(s, f) ==
    /\ s \in ongoingSessions
    /\ f \in attached[s] \cup {"stopStationLivestream"}
    /\ pendingSessions' = PendingAfterStop(s, pendingSessions)
    /\ ongoingSessions' = OngoingAfterStop(s, ongoingSessions)
    /\ res' = [res EXCEPT ![s] = [r \in Resources |->
                  IF r \in CalledOnThrow(attached[s], f) \ {f} THEN "released"
                  ELSE res[s][r]]]
    /\ timeout' = [timeout EXCEPT ![s] = IF timeout[s] = "armed" THEN "cleared" ELSE timeout[s]]
    /\ upstreamHeld' = (IF f # "stopStationLivestream" THEN upstreamHeld \ {s} ELSE upstreamHeld)
    /\ fx' = DelegateFx("stopThrows", s, FALSE, f # "stopStationLivestream",
                        {<<s, r>> : r \in CalledOnThrow(attached[s], f)})
    /\ UNCHANGED <<pc, reqCodec, attached, callback, prepared, stoppedDuring, snapPc, snapshotPromise, cacheTimers>>

FaultNext ==
    \/ SessionNext
    \/ \E s \in Sessions : startStreamThrows(s) /\ UNCHANGED otherVars
    \/ \E s \in Sessions, at \in StartFaults :
           stationLivestreamStartThrows(s, at) /\ UNCHANGED otherVars
    \/ \E s \in Sessions, at \in AudioFaults :
           startStreamAfterDelayThrows(s, at) /\ UNCHANGED otherVars
    \/ \E s \in Sessions, f \in StopFaults : stopStreamThrows(s, f) /\ UNCHANGED otherVars

\* ======================================================================
\* StreamingDelegate: one session, with every request and every event
\* ======================================================================
\* The audio process of a registered session fails to spawn.  The process
\* wrapper (./ffmpeg) is not part of the sources; by the specification (4.4) it
\* surfaces the failure without raising across the session boundary.
audioSpawnFails(s) ==
    /\ s \in ongoingSessions
    /\ res[s]["mainProcess_audio"] = "live"
    /\ res' = [res EXCEPT ![s]["mainProcess_audio"] = "exited"]
    /\ fx' = DelegateFx("audioSpawnFails", s, FALSE, FALSE, {})
    /\ UNCHANGED <<pendingSessions, ongoingSessions, pc, reqCodec, attached, timeout,
                   callback, prepared, upstreamHeld, stoppedDuring,
                   snapPc, snapshotPromise, cacheTimers>>

LifecycleNext ==
    \/ \E s \in OneSession, request \in PrepareRequests, picks \in Picks :
           prepareStream(s, request, picks) /\ UNCHANGED <<brokerVars, configVars>>
    \/ \E s \in OneSession, codec \in AudioCodecs, rtcp \in RtcpIntervals :
           startStream(s, codec, rtcp) /\ UNCHANGED <<brokerVars, configVars>>
    \/ \E d \in Devices : stationLivestreamStart(d) /\ UNCHANGED otherVars
    \/ stationLivestreamStop /\ UNCHANGED otherVars
    \/ \E s \in OneSession : startStreamAfterDelay(s) /\ UNCHANGED otherVars
    \/ \E s \in OneSession : handleStop(s) /\ UNCHANGED otherVars
    \/ \E s \in OneSession, sock \in {"vsocket", "asocket"} :
           socketMessage(s, sock) /\ UNCHANGED <<brokerVars, configVars>>
    \/ \E s \in OneSession : timeoutFires(s) /\ UNCHANGED otherVars
    \/ \E s \in OneSession, sock \in {"vsocket", "asocket"} :
           socketError(s, sock) /\ UNCHANGED otherVars
    \/ \E s \in OneSession : audioSpawnFails(s) /\ UNCHANGED otherVars
    \/ \E s \in OneSession : handleReconfigure(s) /\ UNCHANGED otherVars
    \/ shutdown /\ UNCHANGED otherVars

\* one session, with every request and event and with calls of its start path
\* that throw
StartFaultNext ==
    \/ LifecycleNext
    \/ \E s \in OneSession : startStreamThrows(s) /\ UNCHANGED otherVars
    \/ \E s \in OneSession, at \in StartFaults :
           stationLivestreamStartThrows(s, at) /\ UNCHANGED otherVars
    \/ \E s \in OneSession, at \in AudioFaults :
           startStreamAfterDelayThrows(s, at) /\ UNCHANGED otherVars

\* one session whose id can be negotiated again while it is not active
RenegotiateNext ==
    \/ LifecycleNext
    \/ \E s \in OneSession :
           prepareStreamAgain(s, DefaultPrepareRequest, DefaultPicks(s))
           /\ UNCHANGED <<brokerVars, configVars>>

\* ======================================================================
\* StreamingDelegate: the video parameters of a start
\* ======================================================================
\* filters.indexOf('none'), counted from 1; 0 when there is none
IndexOfNone(filters) ==
    IF \E i \in 1..Len(filters) : filters[i] = "none"
    THEN CHOOSE i \in 1..Len(filters) :
             filters[i] = "none" /\ \A j \in 1..(i - 1) : filters[j] # "none"
    ELSE 0

\* (a variant that ignores forceMax)
determineResolution_NoForce(cfg, request, isSnapshot) ==
    [width |-> IF ~isSnapshot /\ cfg.maxWidth # Null /\ request.width > cfg.maxWidth
               THEN cfg.maxWidth ELSE request.width,
     height |-> IF ~isSnapshot /\ cfg.maxHeight # Null /\ request.height > cfg.maxHeight
                THEN cfg.maxHeight ELSE request.height,
     videoFilter |-> << >>]

\* determineResolution (lines 175-210); the resize filter of lines 198-200 is the
\* item "resize", the one of line 202 the item "even"; videoFilter << >> is an
\* unset videoFilter
determineResolution(cfg, request, isSnapshot) ==
    LET width == IF ~isSnapshot /\ cfg.maxWidth # Null
                    /\ (cfg.forceMax \/ request.width > cfg.maxWidth)
                 THEN cfg.maxWidth ELSE request.width
        height == IF ~isSnapshot /\ cfg.maxHeight # Null
                     /\ (cfg.forceMax \/ request.height > cfg.maxHeight)
                  THEN cfg.maxHeight ELSE request.height
        noneFilter == IndexOfNone(cfg.videoFilter)
        spliced == IF noneFilter > 0
                   THEN SubSeq(cfg.videoFilter, 1, noneFilter - 1)
                        \o SubSeq(cfg.videoFilter, noneFilter + 1, Len(cfg.videoFilter))
                   ELSE cfg.videoFilter
        filters == IF noneFilter = 0 /\ (width > 0 \/ height > 0)
                   THEN spliced \o <<"resize", "even">>
                   ELSE spliced
    IN  [width |-> width, height |-> height, videoFilter |-> filters]

\* (a variant that never takes the codec for 'copy')
VCodec_Transcode(cfg) == "libx264"

\* line 442
VCodec(cfg) == IF cfg.vcodec = "" THEN "libx264" ELSE cfg.vcodec

\* lines 442-489: the parameters of the video track and the arguments of lines
\* 486-489 that depend on them (argFps: '-r', argFilter: '-filter:v',
\* argBitrate: '-b:v' is passed)
VideoParams(cfg, video) ==
    LET resolution == determineResolution(cfg, video, FALSE)
        fps == IF cfg.maxFPS # Null /\ (cfg.forceMax \/ video.fps > cfg.maxFPS)
               THEN cfg.maxFPS ELSE video.fps
        videoBitrate == IF cfg.maxBitrate # Null
                           /\ (cfg.forceMax \/ video.max_bit_rate > cfg.maxBitrate)
                        THEN cfg.maxBitrate ELSE video.max_bit_rate
        copy == VCodec(cfg) = "copy"
        p == [width |-> IF copy THEN 0 ELSE resolution.width,
              height |-> IF copy THEN 0 ELSE resolution.height,
              videoFilter |-> IF copy THEN << >> ELSE resolution.videoFilter,
              fps |-> IF copy THEN 0 ELSE fps,
              videoBitrate |-> IF copy THEN 0 ELSE videoBitrate]
    IN  [computed |-> TRUE, request |-> video, vcodec |-> VCodec(cfg),
         width |-> p.width, height |-> p.height, videoFilter |-> p.videoFilter,
         fps |-> p.fps, videoBitrate |-> p.videoBitrate,
         argFps |-> p.fps > 0, argFilter |-> p.videoFilter # << >>,
         argBitrate |-> p.videoBitrate > 0]

\* startStream derives the video parameters of a request (once in a behaviour)
deriveVideoParams(video) ==
    /\ ~videoParams.computed
    /\ videoParams' = VideoParams(videoConfig, video)
    /\ fx' = DelegateFx("videoParams", 0, FALSE, FALSE, {})
    /\ UNCHANGED <<pendingSessions, ongoingSessions, pc, reqCodec, attached, res, timeout,
                   callback, prepared, upstreamHeld, stoppedDuring,
                   snapPc, snapshotPromise, cacheTimers, videoConfig>>

ParamsNext ==
    \E video \in VideoRequests :
        deriveVideoParams(video) /\ UNCHANGED <<brokerVars, requestVars>>

\* ======================================================================
\* Specifications
\* ======================================================================
Init == BrokerInit /\ DelegateInit /\ videoConfig = DefaultVideoConfig /\ fx = NoFx

\* the delegate constructed with any configuration
ParamsInit == BrokerInit /\ DelegateInit /\ videoConfig \in VideoConfigs /\ fx = NoFx

\* LocalLivestreamManager
BrokerSpec == Init /\ [][BrokerNext]_vars

\* LocalLivestreamManager, with what the claim on its liveness assumes of the
\* station: a start command that it was not told to stop is answered
BrokerFairSpec == BrokerSpec /\ WF_vars(stationAnswers)

\* LocalLivestreamManager with callers of getInitSegment
AccessorSpec == Init /\ [][AccessorNext]_vars

\* StreamingDelegate: the viewer sessions
Spec == Init /\ [][SessionNext]_vars

\* StreamingDelegate: the viewer sessions and the snapshot flow
DelegateSpec == Init /\ [][DelegateNext]_vars

\* StreamingDelegate: the snapshot flow next to one viewer session
SnapshotSpec == Init /\ [][SnapshotNext]_vars

\* StreamingDelegate: one viewer session with every prepare and start request,
\* socket errors and a failing audio process
LifecycleSpec == Init /\ [][LifecycleNext]_vars

\* StreamingDelegate: one viewer session with every request and event, when
\* calls of the start path throw
StartFaultSpec == Init /\ [][StartFaultNext]_vars

\* StreamingDelegate: one viewer session whose id HomeKit may negotiate again
\* whenever it is not in the active table
RenegotiateSpec == Init /\ [][RenegotiateNext]_vars

\* StreamingDelegate: the video parameters startStream derives, for every
\* configuration and request
ParamsSpec == ParamsInit /\ [][ParamsNext]_vars

\* StreamingDelegate: the viewer sessions when calls of the start path or of
\* stopStream throw
FaultSpec == Init /\ [][FaultNext]_vars

\* The viewer sessions, with what the runtime guarantees: the 6 s timer of line 534
\* fires.  Requests, device events, return-channel packets, watchdog expiry and
\* process exit are up to the environment.
FairSpec == Spec /\ \A s \in Sessions : WF_vars(startStreamAfterDelay(s) /\ UNCHANGED otherVars)


\* ======================================================================
\* Properties of LocalLivestreamManager (checked under BrokerSpec)
\* ======================================================================

\* C1: acquire deduplication.  While callers of getLocalLivestream wait for the
\* 'started' notification (no handle exists), exactly one start command has been
\* sent for all of them; the callers that wait are exactly the registered
\* listeners; and when the notification is accepted every one of them resolves
\* with the handle the notification created.
C1_AcquireDedup ==
    /\ listeners # {} => (startsInEpoch = 1 /\ stationStream = NoStream)
    /\ \A c \in Callers : (callerState[c] = "waiting") <=> (c \in listeners)
    /\ (fx.op = "onStart" /\ fx.emit) =>
          \A c \in fx.resolved :
              /\ callerState[c] = "resolved"
              /\ callerHandle[c] = stationStream.id
              /\ stationStream # NoStream

\* C1 witness: all callers waited together and the notification resolved them all
\* with the one new handle.
C1_Witness ==
    /\ fx.op = "onStart" /\ fx.emit
    /\ fx.resolved = Callers
    /\ \A c \in Callers : callerState[c] = "resolved" /\ callerHandle[c] = stationStream.id

\* C2: duplicate-start suppression.  A 'started' notification for this device
\* that arrives while a handle exists whose createdAt is less than 5 seconds old
\* changes nothing: handle (identity, bridges, createdAt), init segment and
\* livestreamStartedAt are unchanged, no bridge is closed, nothing is emitted.
C2_DuplicateDiscarded ==
    [][ ( /\ fx'.op = "onStart" /\ fx'.dev = "this"
          /\ stationStream # NoStream
          /\ now - stationStream.createdAt < DuplicateWindow )
        => ( /\ UNCHANGED <<stationStream, initSegment, livestreamStartedAt, openBridges,
                            listeners, callerState, callerHandle, livestreamIsStarting>>
             /\ ~fx'.emit
             /\ fx'.closed = {} ) ]_vars

\* C2 witness: a notification was discarded one second before the window closes,
\* with the init segment of the kept handle cached.
C2_Witness ==
    /\ fx.op = "onStart" /\ fx.dev = "this" /\ ~fx.emit
    /\ stationStream # NoStream
    /\ now - stationStream.createdAt = DuplicateWindow - 1
    /\ initSegment = stationStream.id

\* C21: acquire with an existing handle.  A getLocalLivestream call made while a
\* handle exists resolves at once with that handle; it sends no start command,
\* registers no 'livestream start' listener and changes nothing of the broker
\* (handle, bridges, init segment, start time, 'starting' flag); no other
\* caller's promise is touched.
C21_AcquireExisting ==
    [][ (fx'.op = "acquire" /\ stationStream # NoStream) =>
          /\ ~fx'.startCmd /\ ~fx'.stopCmd /\ ~fx'.emit /\ fx'.closed = {}
          /\ UNCHANGED <<stationStream, initSegment, livestreamStartedAt,
                         livestreamIsStarting, listeners, openBridges, dataPending,
                         nextHandle, now>>
          /\ \E c \in Callers :
                /\ callerState' = [callerState EXCEPT ![c] = "resolved"]
                /\ callerHandle' = [callerHandle EXCEPT ![c] = stationStream.id] ]_vars

\* C21 witness: a caller has just been handed the existing handle, which is
\* older than the duplicate window and which another caller holds already.
C21_Witness ==
    /\ fx.op = "acquire" /\ ~fx.startCmd
    /\ stationStream # NoStream
    /\ now - stationStream.createdAt >= DuplicateWindow
    /\ \A c \in Callers : callerState[c] = "resolved" /\ callerHandle[c] = stationStream.id

\* C7 (as claimed): after release the broker is fully reset: a stop command was
\* sent, the bridges of the previous handle are closed, handle, init segment and
\* start time are cleared, no completion listener remains and the 'starting'
\* flag is false.
C7_ReleaseFullyResets ==
    fx.op = "release" =>
        /\ fx.stopCmd
        /\ fx.closed \cap openBridges = {}
        /\ stationStream = NoStream
        /\ initSegment = Null
        /\ livestreamStartedAt = Null
        /\ listeners = {}
        /\ ~livestreamIsStarting

\* C8 (as claimed): an 'upstream stopped' notification for this device forces
\* the reset of release (handle, init segment, start time cleared, bridges
\* closed, 'starting' flag reset); a notification for another device changes
\* nothing.
C8_StopNotificationResets ==
    /\ (fx.op = "onStop" /\ fx.dev = "this") =>
          /\ fx.closed \cap openBridges = {}
          /\ stationStream = NoStream
          /\ initSegment = Null
          /\ livestreamStartedAt = Null
          /\ ~livestreamIsStarting
    /\ (fx.op = "onStop" /\ fx.dev = "other") => fx.closed = {}

\* C26 (as claimed): with a station that answers every start command it was not
\* told to stop, every caller of getLocalLivestream that waits is eventually
\* resolved or rejected.  (nextHandle <= MaxHandles: the model has a handle
\* left for the answer; it stays so while the caller waits.)
C26_AcquireLive ==
    \A c \in Callers :
        (callerState[c] = "waiting" /\ nextHandle <= MaxHandles)
            ~> (callerState[c] # "waiting")

\* ======================================================================
\* Properties of StreamingDelegate
\* ======================================================================

\* the resources of a viewer session that are processes or return sockets
ProcessesAndSockets == {"vsocket", "asocket", "mainProcess_video", "mainProcess_audio"}

\* C3: stopStream is idempotent.  No step releases a resource that was released
\* before (a second close of a socket is what would raise); a stop of an id that
\* is in neither table, and a stop that directly follows a stop of the same id,
\* stops no process, closes no socket and no bridge and sends no stop command;
\* after a stop the id is in neither table.
C3_StopIdempotent ==
    [][ /\ \A p \in fx'.released :
              res[p[1]][p[2]] # "released" /\ res'[p[1]][p[2]] = "released"
        /\ fx'.op = "stop" =>
              /\ fx'.sid \notin pendingSessions' \cup ongoingSessions'
              /\ (fx'.sid \notin pendingSessions \cup ongoingSessions) =>
                    (fx'.released = {} /\ ~fx'.stopCmd /\ UNCHANGED delegateVars)
              /\ (fx.op = "stop" /\ fx.sid = fx'.sid) =>
                    (fx'.released = {} /\ ~fx'.stopCmd /\ UNCHANGED delegateVars) ]_vars

\* C3 witness: a stop of a session that an earlier stop had already torn down
\* released nothing.
C3_Witness ==
    /\ fx.op = "stop" /\ fx.released = {} /\ ~fx.stopCmd
    /\ pc[fx.sid] = "done"
    /\ fx.sid \notin ongoingSessions
    /\ res[fx.sid]["mainProcess_video"] = "released"
    /\ res[fx.sid]["vsocket"] = "released"

\* C4 (as claimed): when stop removed the pending session while startStream was
\* suspended (awaiting the upstream, or in the audio delay), then at the step
\* that finishes startStream the session is in neither table, nothing that
\* start created for it is still open or running, and the upstream is released.
C4_OrphanTornDown ==
    [][\A s \in Sessions :
          (stoppedDuring[s] # "no" /\ pc[s] # "done" /\ pc'[s] = "done") =>
              /\ s \notin pendingSessions' \cup ongoingSessions'
              /\ \A r \in Resources : res'[s][r] # "live"
              /\ s \notin upstreamHeld']_vars

\* C5 (as claimed): a snapshot request made while the 3 s expiry timer of a
\* completed fetch is armed is served from the cache: it sends no start command.
C5_SnapshotCached ==
    [][ (fx'.op = "snapshot" /\ cacheTimers > 0) => ~fx'.startCmd ]_vars

\* C6: session isolation.  A stop of session a leaves a in neither table; if a
\* was only negotiated nothing exists for it and no stop command goes to the
\* device, and if it was active everything
\* attached to it is released.  The stop changes nothing of any other session b: b
\* stays in its table with its sockets, bridges, processes and timer as they
\* were.  A start that finds its pending session registers it, and a registered
\* session has its video socket, bridge and process attached and everything
\* attached to it live.
C6_StopFrame ==
    \A a \in Sessions :
        (fx'.op = "stop" /\ fx'.sid = a) =>
            /\ a \notin pendingSessions' \cup ongoingSessions'
            /\ a \in ongoingSessions => \A r \in attached[a] : res'[a][r] = "released"
            /\ pc[a] = "idle" => (res'[a] = NoResources /\ ~fx'.stopCmd)
            /\ \A b \in Sessions \ {a} :
                  /\ (b \in pendingSessions') <=> (b \in pendingSessions)
                  /\ (b \in ongoingSessions') <=> (b \in ongoingSessions)
                  /\ res'[b] = res[b] /\ attached'[b] = attached[b]
                  /\ timeout'[b] = timeout[b] /\ pc'[b] = pc[b]

C6_Registered ==
    \A b \in ongoingSessions :
        /\ {"vsocket", "uVideoStream", "mainProcess_video"} \subseteq attached[b]
        /\ \A r \in attached[b] : res[b][r] = "live"
        /\ b \notin pendingSessions

\* C6: session isolation (the frame of stop, registration by start, and the
\* registered session's resources being live), as stated above.
C6_SessionIsolation ==
    /\ []C6_Registered
    /\ [][ /\ C6_StopFrame
           /\ \A b \in Sessions :
                 (fx'.op = "afterDelay" /\ fx'.sid = b /\ b \in pendingSessions)
                     => b \in ongoingSessions' ]_vars

\* C6 witness: a was negotiated and stopped without ever being started, and the
\* step just taken finished the start of b, which is active with its resources
\* live.
C6_Witness ==
    \E a, b \in Sessions :
        /\ a # b
        /\ a \in prepared /\ a \notin pendingSessions /\ pc[a] = "idle"
        /\ fx.op = "afterDelay" /\ fx.sid = b
        /\ b \in ongoingSessions
        /\ \A r \in Resources : res[b][r] = "live"

\* C9 (as claimed): when the station emits 'livestream stop' for the camera while
\* a viewer session is active, that session is eventually removed from the
\* active table.
C9_UpstreamStopEndsSession ==
    \A s \in Sessions :
        []((fx.op = "livestreamStop" /\ s \in ongoingSessions)
              => <>(s \notin ongoingSessions))

\* C10: start without a pending session.  When startStream resumes and finds no
\* pending session for its id, it passes the session-not-found error to the
\* callback and ends; the active table is unchanged and no process or return
\* socket exists for the id, then and afterwards.
C10_NotFoundStep ==
    \A s \in Sessions :
        (pc[s] = "awaitStream" /\ pc'[s] # "awaitStream" /\ s \notin pendingSessions) =>
            /\ callback'[s] = "Error finding session information"
            /\ pc'[s] = "done"
            /\ ongoingSessions' = ongoingSessions
            /\ \A r \in ProcessesAndSockets : res'[s][r] = "none"

C10_NotFoundState ==
    \A s \in Sessions :
        callback[s] = "Error finding session information" =>
            /\ s \notin ongoingSessions
            /\ \A r \in ProcessesAndSockets : res[s][r] = "none"

\* C10: start without a pending session ends with the session-not-found error
\* and registers or creates nothing, as stated above.
C10_StartNotFound == []C10_NotFoundState /\ [][C10_NotFoundStep]_vars

\* C10 witness: a start for an id that was never negotiated has ended with the
\* error.
C10_Witness ==
    \E s \in Sessions :
        /\ s \notin prepared
        /\ pc[s] = "done"
        /\ callback[s] = "Error finding session information"

\* ======================================================================
\* Properties of getInitSegment (checked under AccessorSpec)
\* ======================================================================

\* C14: a call of getInitSegment never ends in an error: it returns, and what it
\* returns is the first chunk of the video track; a call made before the chunk
\* was observed waits for it.
C14_InitSegmentWaits ==
    /\ segmentCall.status # "RangeError"
    /\ segmentCall.status = "returned" => segmentCall.value # Null

\* ======================================================================
\* Properties of the video parameters (checked under ParamsSpec)
\* ======================================================================

\* C15: when the codec is not pass-through, each of width, height, fps and
\* bitrate is the configured maximum if a maximum is configured and forceMax is
\* set or the requested value exceeds the maximum, and the requested value
\* otherwise.
C15_Clamping ==
    (videoParams.computed /\ videoParams.vcodec # "copy") =>
        LET cfg == videoConfig
            req == videoParams.request
        IN  /\ videoParams.width =
                   IF cfg.maxWidth # Null /\ (cfg.forceMax \/ req.width > cfg.maxWidth)
                   THEN cfg.maxWidth ELSE req.width
            /\ videoParams.height =
                   IF cfg.maxHeight # Null /\ (cfg.forceMax \/ req.height > cfg.maxHeight)
                   THEN cfg.maxHeight ELSE req.height
            /\ videoParams.fps =
                   IF cfg.maxFPS # Null /\ (cfg.forceMax \/ req.fps > cfg.maxFPS)
                   THEN cfg.maxFPS ELSE req.fps
            /\ videoParams.videoBitrate =
                   IF cfg.maxBitrate # Null
                      /\ (cfg.forceMax \/ req.max_bit_rate > cfg.maxBitrate)
                   THEN cfg.maxBitrate ELSE req.max_bit_rate

\* C15 witness: forceMax is set, the requested bitrate exceeds maxBitrate and the
\* derived bitrate is maxBitrate; the requested width is below maxWidth and is
\* forced up to it.
C15_Witness ==
    /\ videoParams.computed /\ videoParams.vcodec # "copy"
    /\ videoConfig.forceMax
    /\ videoConfig.maxBitrate # Null
    /\ videoParams.request.max_bit_rate > videoConfig.maxBitrate
    /\ videoParams.videoBitrate = videoConfig.maxBitrate
    /\ videoConfig.maxWidth # Null
    /\ videoParams.request.width < videoConfig.maxWidth
    /\ videoParams.width = videoConfig.maxWidth

\* C16: with the codec 'copy', width, height, fps and bitrate are 0 and no video
\* filter is set, so that none of '-r', '-filter:v', '-b:v' is passed, whatever
\* the request, the maxima, forceMax and the configured filters.
C16_PassThrough ==
    (videoParams.computed /\ videoConfig.vcodec = "copy") =>
        /\ videoParams.width = 0 /\ videoParams.height = 0
        /\ videoParams.fps = 0 /\ videoParams.videoBitrate = 0
        /\ videoParams.videoFilter = << >>
        /\ ~videoParams.argFps /\ ~videoParams.argFilter /\ ~videoParams.argBitrate

\* C16 witness: the codec is 'copy' with maxima, forceMax and a filter configured.
C16_Witness ==
    /\ videoParams.computed /\ videoConfig.vcodec = "copy"
    /\ videoConfig.forceMax
    /\ videoConfig.maxWidth # Null /\ videoConfig.maxWidth > 0
    /\ videoConfig.maxBitrate # Null /\ videoConfig.maxBitrate > 0
    /\ videoConfig.videoFilter = <<"hflip">>
    /\ videoParams.width = 0 /\ videoParams.videoFilter = << >>

\* ======================================================================
\* Properties of StreamingDelegate when calls throw (checked under FaultSpec)
\* ======================================================================

\* C11: a start call that failed (a call of its start path threw) has had its
\* callback invoked with an error, and its session is not in the active table.
C11_StartFailureRejects ==
    \A s \in Sessions :
        pc[s] = "failed" => (callback[s] # "none" /\ s \notin ongoingSessions)

\* C12: when one call of the stop of a registered session throws, stop()/close()
\* has still been called on every attached resource, the upstream stop is still
\* sent unless it is the call that threw, and the session is removed from the
\* active table.
C12_CleanupIsolation ==
    fx.op = "stopThrows" =>
        /\ fx.sid \notin ongoingSessions
        /\ {<<fx.sid, r>> : r \in attached[fx.sid]} \subseteq fx.released

\* C27 (as claimed): nothing that start opened outlives the session: once the
\* start call of an id has ended (normally, or by an exception) and the id is
\* in neither table, none of its bridges, sockets and processes is open or
\* running and the start command it sent has been followed by a stop command.
C27_NothingOutlives ==
    \A s \in Sessions :
        (pc[s] \in {"done", "failed"} /\ s \notin pendingSessions \cup ongoingSessions) =>
            /\ \A r \in Resources : res[s][r] # "live"
            /\ s \notin upstreamHeld

\* ======================================================================
\* Properties of one session (checked under LifecycleSpec)
\* ======================================================================

\* C13: every packet on a return socket of a session leaves the session's timer
\* armed with the delay of that socket's track, (RTCP interval x 5) seconds; the
\* timer armed for a channel stays the armed one until a packet of that channel
\* re-arms it (a packet on the other channel does not replace it); and when the
\* timer fires stopStream has run for the session: it is in neither table.
C13_WatchdogPerChannel ==
    [][ \A s \in Sessions :
          /\ (fx'.op = "message" /\ fx'.sid = s) =>
                /\ timeout'[s] = "armed"
                /\ \E sock \in {"vsocket", "asocket"} :
                      /\ res[s][sock] = "live"
                      /\ timeoutDelay'[s] =
                            (IF sock = "vsocket" THEN reqRtcp[s].video ELSE reqRtcp[s].audio)
                            * 5 * 1000
          /\ (timeout[s] = "armed" /\ timeout'[s] = "armed") =>
                timeoutDelay'[s] = timeoutDelay[s]
          /\ (fx'.op = "watchdog" /\ fx'.sid = s) =>
                s \notin (pendingSessions' \cup ongoingSessions') ]_vars

\* the resources of the video track
VideoTrack == {"mainProcess_video", "vsocket", "uVideoStream"}

C19_Stored ==
    \A s \in pendingSessions :
        /\ sessionInfo[s].videoSRTP =
              prepareRequest[s].video.srtp_key \o prepareRequest[s].video.srtp_salt
        /\ sessionInfo[s].audioSRTP =
              prepareRequest[s].audio.srtp_key \o prepareRequest[s].audio.srtp_salt
        /\ response[s].video.srtp_key = prepareRequest[s].video.srtp_key
        /\ response[s].video.srtp_salt = prepareRequest[s].video.srtp_salt
        /\ response[s].audio.srtp_key = prepareRequest[s].audio.srtp_key
        /\ response[s].audio.srtp_salt = prepareRequest[s].audio.srtp_salt
        /\ response[s].video.port = sessionInfo[s].videoReturnPort
        /\ response[s].video.ssrc = sessionInfo[s].videoSSRC
        /\ response[s].audio.port = sessionInfo[s].audioReturnPort
        /\ response[s].audio.ssrc = sessionInfo[s].audioSSRC

\* C19, the step: prepareStream adds the request's id, and nothing else, to the
\* pending table, leaves the active table and every resource alone and sends no
\* command to the station.
C19_Step ==
    fx'.op = "prepare" =>
        /\ fx'.sid \notin pendingSessions
        /\ pendingSessions' = pendingSessions \cup {fx'.sid}
        /\ ongoingSessions' = ongoingSessions
        /\ res' = res
        /\ upstreamHeld' = upstreamHeld
        /\ ~fx'.startCmd /\ ~fx'.stopCmd

\* C19: negotiate stores one pending session holding key followed by salt per
\* track, answers with the mirrored key and salt and the stored port and SSRC,
\* and touches neither the upstream nor the active table.
C19_Negotiate == []C19_Stored /\ [][C19_Step]_vars

\* C19 witness: a session was just negotiated with the second key and salt for
\* video and the first ones for audio.
C19_Witness ==
    \E s \in Sessions :
        /\ fx.op = "prepare" /\ fx.sid = s
        /\ s \in pendingSessions
        /\ prepareRequest[s].video = [srtp_key |-> <<3, 4>>, srtp_salt |-> <<6>>]
        /\ sessionInfo[s].videoSRTP = <<3, 4, 6>>
        /\ sessionInfo[s].audioSRTP = <<1, 2, 5>>
        /\ response[s].video.port = 2 /\ response[s].audio.port = 1

\* C28 (as claimed): the handler of the host's shutdown event calls stopStream
\* for every session in the active table: after it the active table is empty
\* and no process, socket or bridge of a session that was active is still
\* running or open.
C28_ShutdownStopsAll ==
    [][ fx'.op = "shutdown" =>
          /\ ongoingSessions' = {}
          /\ \A s \in ongoingSessions : \A r \in attached[s] : res'[s][r] # "live" ]_vars

\* C23: a reconfigure request is acknowledged (its callback is called without
\* an error) and changes nothing: both tables, every session's processes,
\* sockets, bridges and timer and the upstream are as they were, nothing is
\* released and no command is sent to the station.
C23_ReconfigureNoEffect ==
    [][ fx'.op = "reconfigure" =>
          /\ fx'.settled = "callback()"
          /\ UNCHANGED <<pendingSessions, ongoingSessions, attached, res, timeout,
                         timeoutDelay, upstreamHeld, pc, callback, sessionInfo>>
          /\ fx'.released = {} /\ ~fx'.startCmd /\ ~fx'.stopCmd ]_vars

\* C23 witness: a reconfigure request was acknowledged for an active session whose
\* timer is armed.
C23_Witness ==
    /\ fx.op = "reconfigure" /\ fx.settled = "callback()"
    /\ fx.sid \in ongoingSessions
    /\ timeout[fx.sid] = "armed"
    /\ \A r \in Resources : res[fx.sid][r] = "live"

\* ======================================================================
\* Properties of the viewer sessions (checked under Spec)
\* ======================================================================

\* C18, the state: an id that was negotiated and stopped and never started has
\* no process, socket or bridge, no timer, sent no start command and is in
\* neither table.
C18_Stopped ==
    \A s \in Sessions :
        (s \in prepared /\ pc[s] = "idle" /\ s \notin pendingSessions) =>
            /\ s \notin ongoingSessions
            /\ res[s] = NoResources
            /\ attached[s] = {}
            /\ timeout[s] = "unset"
            /\ s \notin upstreamHeld

\* C18, the steps: the negotiation of an id and the stop of an id that was not
\* started create and release nothing and send no command, and the stop leaves
\* the id in neither table.
C18_Step ==
    (fx'.op = "prepare" \/ (fx'.op = "stop" /\ pc[fx'.sid] = "idle")) =>
        /\ res' = res
        /\ ongoingSessions' = ongoingSessions
        /\ fx'.released = {}
        /\ ~fx'.startCmd /\ ~fx'.stopCmd
        /\ fx'.op = "stop" => fx'.sid \notin (pendingSessions' \cup ongoingSessions')

\* C18: negotiate followed by stop, with no start in between, spawns no process,
\* binds no socket, sends no start or stop command and leaves both tables
\* without the id.
C18_NegotiateThenStop == []C18_Stopped /\ [][C18_Step]_vars

\* C18 witness: a negotiated session was just stopped without having been
\* started, while another session is registered.
C18_Witness ==
    \E s \in Sessions :
        /\ fx.op = "stop" /\ fx.sid = s
        /\ s \in prepared /\ pc[s] = "idle"
        /\ s \notin pendingSessions
        /\ ongoingSessions # {}

\* C29 (as claimed): when stopStream has run for a session id (on a stop
\* request or from the watchdog), the timer of that session is not armed.
C29_NoTimerAfterStop ==
    [][ fx'.op \in {"stop", "watchdog"} => timeout'[fx'.sid] # "armed" ]_vars

\* an id that was negotiated and is in neither table: stopStream removed it
Removed(s) == s \in prepared /\ s \notin (pendingSessions \cup ongoingSessions)

\* C20, the step: an id enters the active table only from the pending table, and
\* an id that stop removed is in neither table after any later step.
C20_Step ==
    \A s \in Sessions :
        /\ (s \in ongoingSessions' /\ s \notin ongoingSessions) =>
              (s \in pendingSessions /\ s \notin pendingSessions')
        /\ Removed(s) => Removed(s)'

\* C20: session state is monotonic: a registered id was negotiated, it becomes
\* active only from pending, and once removed it is never pending or active
\* again, whatever step of an in-flight start, of the watchdog or of a socket
\* error follows.
C20_Monotonic ==
    /\ [](\A s \in pendingSessions \cup ongoingSessions : s \in prepared)
    /\ [][C20_Step]_vars

\* C20 witness: the pending session was removed during the 6 s delay of its
\* start, the start has run to its end (tearing down what it had created) and
\* the id is in neither table.
C20_Witness ==
    \E s \in Sessions :
        /\ fx.op = "afterDelay" /\ fx.sid = s
        /\ fx.released # {}
        /\ Removed(s)
        /\ res[s]["mainProcess_video"] = "released"

\* ======================================================================
\* Properties of the snapshot flow (checked under SnapshotSpec)
\* ======================================================================

\* C22: the snapshot flow releases what it acquires.  A fetch that waits for the
\* upstream handle leaves that wait only by obtaining the handle, and then its
\* one transcoder process runs; the process ends only with its 'close' event,
\* and that step sends one stop command to the station and settles the fetch:
\* resolved with the image if the transcoder wrote one, rejected if it wrote
\* nothing.
C22_SnapshotReleases ==
    [][ \A k \in Snapshots :
          /\ (snapPc[k] = "awaitStream" /\ snapPc'[k] # "awaitStream") =>
                (snapPc'[k] = "transcoding" /\ fx'.op = "livestreamStart" /\ fx'.dev = "this")
          /\ (snapPc[k] # "transcoding" /\ snapPc'[k] = "transcoding") =>
                snapPc[k] = "awaitStream"
          /\ (snapPc[k] = "transcoding" /\ snapPc'[k] # "transcoding") =>
                /\ fx'.op = "snapshotClose" /\ fx'.sid = k
                /\ snapPc'[k] = "idle"
          /\ (fx'.op = "snapshotClose" /\ fx'.sid = k) =>
                /\ snapPc[k] = "transcoding"
                /\ fx'.stopCmd /\ ~fx'.startCmd
                /\ fx'.output \in {"empty", "image"}
                /\ (fx'.settled = "resolved") <=> (fx'.output = "image")
                /\ (fx'.settled = "rejected") <=> (fx'.output = "empty") ]_vars

\* C22 witness: the transcoder of a snapshot closed without having written an
\* image: the fetch was rejected and the stop command sent.
C22_Witness ==
    /\ fx.op = "snapshotClose" /\ fx.output = "empty"
    /\ fx.settled = "rejected" /\ fx.stopCmd
    /\ \A k \in Snapshots : snapPc[k] = "idle"

\* ======================================================================
\* Properties of the shared upstream (checked under DelegateSpec)
\* ======================================================================

\* C24 (as claimed): a start command goes to the station only when the upstream
\* is not running and not being started: no viewer session holds it and no
\* snapshot fetch is in flight.  A session start or snapshot fetch that finds
\* it running uses it as it is.
C24_OneStartOutstanding ==
    [][ fx'.startCmd => (upstreamHeld = {} /\ \A k \in Snapshots : snapPc[k] = "idle") ]_vars

\* C25 (as claimed): no stop command goes to the station while a viewer session
\* is registered as active: not when another session is stopped, and not when
\* the transcoder of a snapshot fetch closes.
C25_NoStopUnderActive ==
    [][ fx'.stopCmd => ongoingSessions' = {} ]_vars

\* ======================================================================
\* Properties of the tables (checked under RenegotiateSpec)
\* ======================================================================

\* C30: between any two steps no session id is in both the pending and the
\* active table, when prepareStream is never called with the id of an active
\* session.
C30_TablesDisjoint == pendingSessions \cap ongoingSessions = {}

\* C30 witness: the pending session was removed while its start was in the 6 s
\* delay, and the id has just been negotiated again, the start still being in
\* that delay.
C30_Witness ==
    \E s \in Sessions :
        /\ fx.op = "prepare" /\ fx.sid = s
        /\ pc[s] = "delay" /\ stoppedDuring[s] = "delay"
        /\ s \in pendingSessions
        /\ res[s]["vsocket"] = "live"

\* ======================================================================
\* Properties of the order of the tracks (checked under StartFaultSpec)
\* ======================================================================

\* the resources of the audio track
AudioTrack == {"mainProcess_audio", "asocket", "uAudioStream"}

\* C31, the state: a session that has anything of its audio track has had its
\* video socket bound and its video process spawned.
C31_AudioHasVideo ==
    \A s \in Sessions :
        (\E r \in AudioTrack : res[s][r] # "none") =>
            (res[s]["vsocket"] # "none" /\ res[s]["mainProcess_video"] # "none")

\* C31, the steps: the step that spawns the video process of a session leaves
\* the start in the 6 s delay with nothing of the audio track created; the
\* audio bridge, socket and process are created only by the step that ends
\* that delay, for a session whose video socket and process an earlier step
\* created.
C31_Step ==
    \A s \in Sessions :
        /\ (res[s]["mainProcess_video"] = "none" /\ res'[s]["mainProcess_video"] # "none") =>
              /\ pc'[s] = "delay"
              /\ res'[s]["vsocket"] = "live"
              /\ \A r \in AudioTrack : res'[s][r] = "none"
        /\ (\E r \in AudioTrack : res[s][r] = "none" /\ res'[s][r] # "none") =>
              /\ pc[s] = "delay" /\ pc'[s] # "delay"
              /\ res[s]["vsocket"] # "none"
              /\ res[s]["mainProcess_video"] # "none"

\* C31: track start ordering: video socket and process first, then the 6 s
\* delay, then the audio bridge and process; no audio process for a session
\* whose video process was not spawned.
C31_VideoBeforeAudio == []C31_AudioHasVideo /\ [][C31_Step]_vars

\* C31 witness: the delay of a start has just ended and the audio process was
\* spawned next to the video process that was running through the delay.
C31_Witness ==
    \E s \in Sessions :
        /\ fx.op = "afterDelay" /\ fx.sid = s
        /\ reqCodec[s] = "AAC_ELD"
        /\ res[s]["mainProcess_audio"] = "live"
        /\ res[s]["mainProcess_video"] = "live"
        /\ s \in ongoingSessions

====
